---------------------------- MODULE Spec2Model ----------------------------
(***************************************************************************)
(* fly-mcp: the MCP request dispatch and tool-execution pipeline.          *)
(*                                                                         *)
(* The module models                                                       *)
(*   - the authorization manager (pkg/auth/manager.go),                    *)
(*   - the dispatcher (mcp.Handler.HandleRequest and its handlers),        *)
(*   - the tools (ping, fly_list_apps, fly_app_info, fly_status,           *)
(*     fly_restart) and the adapter calls they make (fly.Client),          *)
(*   - the HTTP entry point (server.handleMCP) and the response writer.    *)
(*                                                                         *)
(* Spec     : one request at a time travels through the pipeline, step by  *)
(*            step; the request body, the permission table and every       *)
(*            outcome of the external provider are nondeterministic.       *)
(* SpecAuth : the authorization manager's functions applied to inputs      *)
(*            drawn from bounded sets.                                     *)
(***************************************************************************)
EXTENDS Integers, Sequences, FiniteSets, TLC

VARIABLES
    flyConfig,    \* cfg.Fly: the Fly.io API token the server was started with
    tools,        \* Handler.tools: registry key -> Name() of the tool stored under it
    permissions,  \* config.Security.Permissions: map user -> permission list
    pc,           \* position of the request in the pipeline
    body,         \* the HTTP request body being handled
    req,          \* the decoded MCPRequest
    toolName,     \* name of the tool handleToolsCall resolved
    args,         \* the arguments map handed to Execute
    local,        \* locals of the running Execute (appName, flags, adapter results)
    ret,          \* (result, err) returned by Execute / by the method handler
    w,            \* the http.ResponseWriter: wire status, wrapper status, bodies
    events,       \* log / audit / security / adapter-call events, in order
    proc,         \* SpecShutdown: runServer, its context, Server.Start, the listener
    inflight,     \* SpecShutdown: the requests being served and their contexts
    aq            \* SpecAuth: the last query to the authorization manager and its answer

vars ==
    <<flyConfig, tools, permissions, pc, body, req, toolName, args, local, ret, w, events,
      proc, inflight, aq>>

(***************************************************************************)
(* Bounds                                                                  *)
(***************************************************************************)
\* largest permission list of one entry of the permission table (SpecAuth)
MaxPerms == 2
\* largest number of App records the provider returns from GetApps
MaxApps == 2
\* largest number of machines the provider returns from ListMachines
MaxMachines == 2
\* largest number of requests in flight at once (SpecShutdown)
MaxInflight == 3

(***************************************************************************)
(* JSON values: <<tag, text>> with tag in "absent", "str", "bool", "num".  *)
(* A Go type assertion v.(string) succeeds iff the tag is "str", etc.      *)
(***************************************************************************)
Absent == <<"absent", "">>
JStr(s) == <<"str", s>>
JTrue == <<"bool", "true">>
JFalse == <<"bool", "false">>
JNum == <<"num", "1">>

IsString(v) == v[1] = "str"
IsBool(v) == v[1] = "bool"

\* the nil error
NoErr == ""
\* the nil interface{} id / the id omitted on the wire
NoId == "<nil>"

(***************************************************************************)
(* pkg/auth/manager.go                                                     *)
(***************************************************************************)
\* the users of the bounded permission tables
Users == {"anonymous", "alice", "default"}
Actions == {"read", "restart"}
Resources == {"apps", "app"}

\* the permission strings a bounded table is built from
PermUniverse ==
    {"read:apps", "read:app", "read:*", "restart:app", "restart:*",
     "*", "fly:read", "fly:*"}

\* fmt.Sprintf("%s:%s", action, resource)
RequiredPermission(action, resource) == action \o ":" \o resource

\* ResolvePermissions with the fallback taken on an empty own entry too
\* (len(permissions) == 0 in place of !exists)
ResolvePermissions_EmptyFallsBack(perms, userID) ==
    IF userID \in DOMAIN perms /\ (perms[userID] # {} \/ "default" \notin DOMAIN perms)
    THEN perms[userID]
    ELSE perms["default"]

\* the permission list ValidatePermissions / HasPermission iterate over:
\* the user's own entry when the map has one, else the "default" entry
ResolvePermissions(perms, userID) ==
    IF userID \in DOMAIN perms THEN perms[userID] ELSE perms["default"]

\* permissions, exists := ...[userID]; if !exists { ..., exists = ...["default"] }
PermissionsExist(perms, userID) ==
    userID \in DOMAIN perms \/ "default" \in DOMAIN perms

\* ValidatePermissions without the action:* comparison
ValidatePermissions_NoActionWildcard(perms, userID, action, resource) ==
    IF ~PermissionsExist(perms, userID)
    THEN "no permissions configured for user " \o userID
    ELSE IF \E permission \in ResolvePermissions(perms, userID) :
                \/ permission = RequiredPermission(action, resource)
                \/ permission = "*"
         THEN NoErr
         ELSE "insufficient permissions: user " \o userID \o " cannot "
                  \o action \o " on " \o resource

\* Manager.ValidatePermissions: the error it returns (NoErr for nil)
ValidatePermissions(perms, userID, action, resource) ==
    IF ~PermissionsExist(perms, userID)
    THEN "no permissions configured for user " \o userID
    ELSE IF \E permission \in ResolvePermissions(perms, userID) :
                \/ permission = RequiredPermission(action, resource)
                \/ permission = action \o ":*"
                \/ permission = "*"
         THEN NoErr
         ELSE "insufficient permissions: user " \o userID \o " cannot "
                  \o action \o " on " \o resource

\* strings.HasSuffix(p, ":*") with strings.TrimSuffix: the prefixes pre with p = pre:*
WildcardPrefixes(p) == {pre \in Actions \cup {"fly"} : p = pre \o ":*"}

\* strings.HasPrefix(permStr, prefix + ":")
HasPrefixColon(permStr, prefix) ==
    \E rest \in Resources \cup Actions \cup {"*"} : permStr = prefix \o ":" \o rest

\* Manager.HasPermission
HasPermission(perms, userID, permStr) ==
    /\ PermissionsExist(perms, userID)
    /\ \E p \in ResolvePermissions(perms, userID) :
          \/ p = permStr
          \/ p = "*"
          \/ \E pre \in WildcardPrefixes(p) : HasPrefixColon(permStr, pre)

\* Manager.ExtractUserFromContext: ctx.Value("user_id").(string), non-empty,
\* else "anonymous"
ExtractUserFromContext(ctxUser) ==
    IF IsString(ctxUser) /\ ctxUser[2] # "" THEN ctxUser[2] ELSE "anonymous"

\* the event Manager.LogSecurityEvent writes
SecurityEvent(eventType, userID, resource, allowed, action) ==
    [kind |-> "security", name |-> eventType, user |-> userID,
     action |-> action, resource |-> resource, ok |-> allowed]

\* ValidateRequest that logs denials only
ValidateRequest_SilentAllow(perms, ctxUser, action, resource) ==
    LET userID == ExtractUserFromContext(ctxUser)
        err == ValidatePermissions(perms, userID, action, resource)
    IN IF err # NoErr
       THEN <<err, <<SecurityEvent("permission_denied", userID, resource, FALSE, action)>> >>
       ELSE <<NoErr, <<>> >>

\* Manager.ValidateRequest: <<error, events written>>
\* (ExtractUserFromContext never returns an error, so the first branch of
\* the source cannot be taken)
ValidateRequest(perms, ctxUser, action, resource) ==
    LET userID == ExtractUserFromContext(ctxUser)
        err == ValidatePermissions(perms, userID, action, resource)
    IN IF err # NoErr
       THEN <<err, <<SecurityEvent("permission_denied", userID, resource, FALSE, action)>> >>
       ELSE <<NoErr, <<SecurityEvent("request_authorized", userID, resource, TRUE, action)>> >>


(***************************************************************************)
(* Request bodies (the inputs of HandleRequest)                            *)
(***************************************************************************)
Ids == {NoId, "1", "req-7"}
Methods ==
    {"initialize", "tools/list", "tools/call", "resources/list",
     "resources/read", "prompts/list"}
KnownMethods ==
    {"initialize", "tools/list", "tools/call", "resources/list", "resources/read"}

\* the arguments object of a tools/call; kind is "object", "array" or "absent"
MkArgs(kind, appName, confirm, format, includeDetails, includeStatus, statusFilter, message, reason) ==
    [kind |-> kind, app_name |-> appName, confirm |-> confirm, format |-> format,
     include_details |-> includeDetails, include_status |-> includeStatus,
     status_filter |-> statusFilter, message |-> message, reason |-> reason]

\* arguments = make(map[string]interface{})
EmptyArgs == MkArgs("object", Absent, Absent, Absent, Absent, Absent, Absent, Absent, Absent)

ArgumentsSet ==
    {EmptyArgs, [EmptyArgs EXCEPT !.kind = "array"], [EmptyArgs EXCEPT !.kind = "absent"],
     [EmptyArgs EXCEPT !.message = JStr("hi")]}
    \cup {MkArgs("object", Absent, Absent, Absent, d, Absent, f, Absent, Absent) :
             d \in {JTrue, JFalse}, f \in {Absent, JStr("running")}}
    \cup {MkArgs("object", a, c, f, Absent, s, Absent, Absent, Absent) :
             a \in {Absent, JStr(""), JStr("my-app"), JNum},
             c \in {Absent, JTrue, JFalse, JStr("true")},
             f \in {Absent, JStr("json")},
             s \in {Absent, JFalse}}
    \cup {MkArgs("object", JStr("my-app"), JTrue, Absent, Absent, Absent, Absent, Absent, JStr("deploy"))}

RequestedNames ==
    {JStr(n) : n \in {"ping", "fly_list_apps", "fly_app_info", "fly_status",
                      "fly_restart", "fly_scale", "no_such_tool"}}
    \cup {Absent, JNum}

\* params of a request; kind is "object", "array" or "absent"
NoParams == [kind |-> "absent", name |-> Absent, arguments |-> [EmptyArgs EXCEPT !.kind = "absent"]]
ParamsSet ==
    {NoParams, [NoParams EXCEPT !.kind = "array"]}
    \cup {[kind |-> "object", name |-> n, arguments |-> a] :
             n \in RequestedNames, a \in ArgumentsSet}

\* a body: top is what the JSON text is at top level
\*   "garbage" (not JSON), "array", "null" or "object"
MkBody(top, id, method, params) ==
    [top |-> top, id |-> id, method |-> method, params |-> params]

NoBody == MkBody("null", NoId, Absent, NoParams)

Bodies ==
    {MkBody(t, i, JStr(m), NoParams) :
        t \in {"garbage", "array", "null"}, i \in {"1"}, m \in {"tools/call", "initialize"}}
    \cup {MkBody("object", i, m, p) :
             i \in Ids, m \in {JNum, Absent}, p \in {NoParams}}
    \cup {MkBody("object", i, JStr(m), p) :
             i \in Ids, m \in Methods \ {"tools/call"},
             p \in {NoParams, [NoParams EXCEPT !.kind = "array"]}}
    \cup {MkBody("object", i, JStr("tools/call"), p) : i \in Ids, p \in ParamsSet}

\* the zero MCPRequest
EmptyReq == [ID |-> NoId, Method |-> "", Params |-> NoParams]

\* Decode that skips a field of the wrong type in place of failing
Decode_SkipsWrongType(b) ==
    CASE b.top = "garbage" -> [ok |-> FALSE, req |-> EmptyReq]
      [] b.top = "array"   -> [ok |-> FALSE, req |-> EmptyReq]
      [] b.top = "null"    -> [ok |-> TRUE, req |-> EmptyReq]
      [] OTHER ->
           [ok |-> TRUE,
            req |-> [ID |-> b.id,
                     Method |-> IF IsString(b.method) THEN b.method[2] ELSE "",
                     Params |-> b.params]]

\* json.NewDecoder(r.Body).Decode(&req): ok is FALSE when Decode returns an
\* error (text that is not JSON, a top-level array, a method that is not a
\* string); the JSON value null decodes into the zero request
Decode(b) ==
    CASE b.top = "garbage" -> [ok |-> FALSE, req |-> EmptyReq]
      [] b.top = "array"   -> [ok |-> FALSE, req |-> EmptyReq]
      [] b.top = "null"    -> [ok |-> TRUE, req |-> EmptyReq]
      [] OTHER ->
           IF b.method[1] \notin {"str", "absent"}
           THEN [ok |-> FALSE, req |-> EmptyReq]
           ELSE [ok |-> TRUE,
                 req |-> [ID |-> b.id,
                          Method |-> IF IsString(b.method) THEN b.method[2] ELSE "",
                          Params |-> b.params]]

(***************************************************************************)
(* pkg/mcp/types.go, pkg/interfaces: responses and tool results            *)
(***************************************************************************)
\* a nil Result
NilResult ==
    [nil |-> TRUE, kind |-> "", isError |-> FALSE, content |-> <<>>, names |-> <<>>]
\* &interfaces.ToolResult{Content: {{Type: "text", Text: text}}, IsError: isError}
ToolResult(text, isError) ==
    [nil |-> FALSE, kind |-> "tool", isError |-> isError, content |-> <<text>>, names |-> <<>>]
\* the map[string]interface{} results of initialize, tools/list, resources/list;
\* names is the "name" of each entry of "tools", in the order appended
MapResult(kind, names) ==
    [nil |-> FALSE, kind |-> kind, isError |-> FALSE, content |-> <<>>, names |-> names]

\* a nil *MCPError
NilError == [nil |-> TRUE, Code |-> 0, Message |-> "", hasData |-> FALSE, method |-> "", error |-> ""]
MCPError(code, message, hasData, method, error) ==
    [nil |-> FALSE, Code |-> code, Message |-> message, hasData |-> hasData,
     method |-> method, error |-> error]

MCPResponse(id, result, error) == [ID |-> id, Result |-> result, Error |-> error]

\* what a (response, err) or (result, err) pair looks like in ret
NoRet == [ID |-> NoId, Result |-> NilResult, err |-> NoErr]
Return(id, result, err) == [ID |-> id, Result |-> result, err |-> err]

\* EncodeEnvelope with the result field lacking omitempty: a nil result is
\* written as "result": null
EncodeEnvelope_ResultNotOmitted(response) ==
    [kind |-> "envelope",
     id |-> response.ID,
     hasResult |-> TRUE,
     hasError |-> ~response.Error.nil,
     result |-> response.Result,
     error |-> response.Error]

\* json.Encoder.Encode of an MCPResponse: omitempty drops a nil id, a nil
\* result and a nil error from the object written
EncodeEnvelope(response) ==
    [kind |-> "envelope",
     id |-> response.ID,
     hasResult |-> ~response.Result.nil,
     hasError |-> ~response.Error.nil,
     result |-> response.Result,
     error |-> response.Error]

\* the plain-text body http.Error writes
TextBody ==
    [kind |-> "text", id |-> NoId, hasResult |-> FALSE, hasError |-> FALSE,
     result |-> NilResult, error |-> NilError]

(***************************************************************************)
(* The http.ResponseWriter seen through loggingMiddleware's wrapper        *)
(*   status  : the status line sent to the client (0: none sent yet)       *)
(*   wrapper : responseWriter.statusCode, the status the middleware logs   *)
(*   out     : the bodies written, in order                                *)
(*   aborted : the connection was dropped by a handler panic               *)
(***************************************************************************)
StatusOK == 200
StatusInternalServerError == 500

NewWriter == [status |-> 0, wrapper |-> StatusOK, out |-> <<>>, aborted |-> FALSE]

\* responseWriter.WriteHeader: records the code and forwards it; the
\* underlying writer sends a status line only once, later calls are ignored
WriteHeader(wr, code) ==
    [wr EXCEPT !.wrapper = code, !.status = IF @ = 0 THEN code ELSE @]

\* Write: sends the status line 200 first if none was sent
Write(wr, b) ==
    [wr EXCEPT !.status = IF @ = 0 THEN StatusOK ELSE @, !.out = Append(@, b)]

\* json.NewEncoder(w).Encode(response); encOK is whether encoding and
\* writing succeed.  Returns the writer and the error.
Encode(wr, response, encOK) ==
    IF encOK THEN [w |-> Write(wr, EncodeEnvelope(response)), err |-> NoErr]
    ELSE [w |-> wr, err |-> "encode failed"]

\* Handler.sendResponse
sendResponse(wr, response, encOK) ==
    Encode(WriteHeader(wr, StatusOK), response, encOK)

\* sendError that drops the data payload
sendError_NoData(wr, code, message, hasData, method, error, encOK) ==
    Encode(WriteHeader(wr, StatusOK),
           MCPResponse(NoId, NilResult, MCPError(code, message, FALSE, "", "")),
           encOK)

\* Handler.sendError: the response it builds has no ID
sendError(wr, code, message, hasData, method, error, encOK) ==
    Encode(WriteHeader(wr, StatusOK),
           MCPResponse(NoId, NilResult, MCPError(code, message, hasData, method, error)),
           encOK)

\* http.Error(w, "Internal server error", http.StatusInternalServerError)
HttpError(wr, code) == Write(WriteHeader(wr, code), TextBody)

(***************************************************************************)
(* Events: what the loggers and the provider see, in order                 *)
(***************************************************************************)
Event(kind, name, user, action, resource, ok) ==
    [kind |-> kind, name |-> name, user |-> user, action |-> action,
     resource |-> resource, ok |-> ok]

\* Logger.LogMCPRequest
LogMCPRequest(method) == Event("mcp_request", method, "", "", "", TRUE)
\* Logger.LogMCPResponse
LogMCPResponse(method, success) == Event("mcp_response", method, "", "", "", success)
\* Logger.LogToolExecution
LogToolExecution(userID, name, err) == Event("tool_execution", name, userID, "", "", err = NoErr)
\* Manager.AuditLog
AuditLog(userID, action, resource, result) ==
    Event("audit", result, userID, action, resource, result = "success")
\* tool.Execute(r.Context(), arguments) is entered
ExecuteInvoked(name) == Event("execute", name, "", "", "", TRUE)
\* a call of the provider: GetApps, GetApp, GetAppCompact, ListMachines,
\* StopMachine, StartMachine, and the adapter methods GetAppStatus, RestartApp
AdapterCall(name, resource, ok) == Event("adapter", name, "", "", resource, ok)

(***************************************************************************)
(* Permission tables                                                       *)
(***************************************************************************)
\* the map with one key per pair <<user, permission list>> of entries
MkTable(entries) ==
    [u \in {e[1] : e \in entries} |-> (CHOOSE e \in entries : e[1] = u)[2]]

\* no entry for user, or one of the given entries
EntryChoices(user, lists) == {{}} \cup {{<<user, l>>} : l \in lists}

\* security.permissions of config.local.yaml
ConfigLocalPermissions ==
    MkTable({<<"default", {"fly:read", "fly:deploy", "fly:scale", "fly:restart", "fly:logs"}>>})

\* security.permissions of config.production.yaml
ConfigProductionPermissions ==
    MkTable({<<"default", {"fly:read", "fly:deploy", "fly:scale", "fly:restart", "fly:logs",
                           "fly:secrets", "fly:volumes"}>>})

\* tables that also hold an entry for a named user
NamedUserTables ==
    {MkTable({<<"alice", {"*"}>>, <<"default", {"fly:read", "fly:restart"}>>}),
     MkTable({<<"alice", {"*"}>>, <<"anonymous", {"read:apps"}>>}),
     MkTable({<<"alice", {}>>, <<"default", {"read:*"}>>})}

\* the tables of Spec: entries for "anonymous" and for "default", the two
\* shipped tables, and tables with an entry for a named user
PipelineTables ==
    {MkTable(a \cup d) :
        a \in EntryChoices("anonymous",
                 {{}, {"read:apps"}, {"read:app", "restart:app"}, {"*"}}),
        d \in EntryChoices("default",
                 {{"read:*"}, {"fly:read", "fly:restart"}, {"restart:*"}})}
    \cup {ConfigLocalPermissions, ConfigProductionPermissions}
    \cup NamedUserTables

\* the tables of SpecAuth: entries for "alice" and for "default", each a
\* list of at most MaxPerms permissions
BoundedLists == {l \in SUBSET PermUniverse : Cardinality(l) <= MaxPerms}
AuthTables ==
    {MkTable(a \cup d) :
        a \in EntryChoices("alice", BoundedLists),
        d \in EntryChoices("default", BoundedLists)}

(***************************************************************************)
(* The provider and the adapter (fly.Client, fly.MachinesClient)           *)
(***************************************************************************)
\* a nil *time.Time
NilPtr == "nil"

AppStatusValues == {"running", "suspended"}
MachineStateValues == {"started", "stopped"}
\* how the restart of one machine goes: at the provider ("ok", "stop_fail",
\* "start_fail"), or the request context is already cancelled when the stop
\* request is made ("ctx_cancelled": http.Client.Do returns ctx.Err())
RestartOutcomes == {"ok", "stop_fail", "start_fail", "ctx_cancelled"}

\* how the restarts of n machines go: a cancelled context stays cancelled
RestartOutcomeSeqs(n) ==
    {o \in [1..n -> RestartOutcomes] :
        \A i, j \in 1..n : (i < j /\ o[i] = "ctx_cancelled") => o[j] = "ctx_cancelled"}

\* sequences over S of length at most n
SeqsUpTo(S, n) == UNION {[1..k -> S] : k \in 0..n}

\* what the provider answers to GetApps: an error, or the statuses of the apps
GetAppsOutcomes ==
    {[err |-> "api error", apps |-> <<>>]}
    \cup {[err |-> NoErr, apps |-> a] : a \in SeqsUpTo(AppStatusValues, MaxApps)}

\* what the provider answers to GetAppCompact: an error, or the app's status
GetAppCompactOutcomes ==
    {[err |-> "api error", status |-> ""]}
    \cup {[err |-> NoErr, status |-> st] : st \in AppStatusValues}

\* what the provider answers to ListMachines: an error, or the machines' states
ListMachinesOutcomes ==
    {[err |-> "api error", machines |-> <<>>]}
    \cup {[err |-> NoErr, machines |-> m] : m \in SeqsUpTo(MachineStateValues, MaxMachines)}

NilApp ==
    [nil |-> TRUE, Name |-> "", Status |-> "", Deployed |-> FALSE,
     CreatedAt |-> NilPtr, UpdatedAt |-> NilPtr]

\* the App the adapter builds from a provider record: the timestamps and
\* the organization are not copied
ConvertApp(name, status) ==
    [nil |-> FALSE, Name |-> name, Status |-> status, Deployed |-> TRUE,
     CreatedAt |-> NilPtr, UpdatedAt |-> NilPtr]

AppNameAt(i) == "app" \o ToString(i)

\* Client.GetApps
GetApps(out) ==
    IF out.err # NoErr
    THEN [apps |-> <<>>, err |-> "failed to get apps: " \o out.err,
          events |-> <<AdapterCall("GetApps", "apps", FALSE)>>]
    ELSE [apps |-> [i \in 1..Len(out.apps) |-> ConvertApp(AppNameAt(i), out.apps[i])],
          err |-> NoErr,
          events |-> <<AdapterCall("GetApps", "apps", TRUE)>>]

\* Client.GetApp
GetApp(out, appName) ==
    IF out.err # NoErr
    THEN [app |-> NilApp, err |-> "failed to get app " \o appName \o ": " \o out.err,
          events |-> <<AdapterCall("GetApp", appName, FALSE)>>]
    ELSE [app |-> ConvertApp(appName, out.status), err |-> NoErr,
          events |-> <<AdapterCall("GetApp", appName, TRUE)>>]

NilStatus ==
    [nil |-> TRUE, AppName |-> "", Status |-> "", Deployed |-> FALSE,
     MachineCount |-> 0, MachineStates |-> <<>>]

\* machineStates[machine.State]++ over the machines
CountStates(machines) ==
    [st \in {machines[i] : i \in 1..Len(machines)} |->
        Cardinality({i \in 1..Len(machines) : machines[i] = st})]

\* GetAppStatus that gives up when the machines cannot be listed
GetAppStatus_ListFailureIsError(appOut, machOut, appName) ==
    IF appOut.err # NoErr
    THEN [status |-> NilStatus,
          err |-> "failed to get app status for " \o appName \o ": " \o appOut.err,
          events |-> <<AdapterCall("GetAppCompact", appName, FALSE),
                       AdapterCall("GetAppStatus", appName, FALSE)>>]
    ELSE IF machOut.err # NoErr
    THEN [status |-> NilStatus,
          err |-> "failed to get machines for " \o appName \o ": " \o machOut.err,
          events |-> <<AdapterCall("GetAppCompact", appName, TRUE),
                       AdapterCall("ListMachines", appName, FALSE),
                       AdapterCall("GetAppStatus", appName, FALSE)>>]
    ELSE [status |-> [nil |-> FALSE, AppName |-> appName, Status |-> appOut.status,
                      Deployed |-> TRUE, MachineCount |-> Len(machOut.machines),
                      MachineStates |-> CountStates(machOut.machines)],
          err |-> NoErr,
          events |-> <<AdapterCall("GetAppCompact", appName, TRUE),
                       AdapterCall("ListMachines", appName, TRUE),
                       AdapterCall("GetAppStatus", appName, TRUE)>>]

\* Client.GetAppStatus: the app lookup, then the machines; a failed machine
\* listing is only logged
GetAppStatus(appOut, machOut, appName) ==
    IF appOut.err # NoErr
    THEN [status |-> NilStatus,
          err |-> "failed to get app status for " \o appName \o ": " \o appOut.err,
          events |-> <<AdapterCall("GetAppCompact", appName, FALSE),
                       AdapterCall("GetAppStatus", appName, FALSE)>>]
    ELSE IF machOut.err # NoErr
    THEN [status |-> [nil |-> FALSE, AppName |-> appName, Status |-> appOut.status,
                      Deployed |-> TRUE, MachineCount |-> 0, MachineStates |-> <<>>],
          err |-> NoErr,
          events |-> <<AdapterCall("GetAppCompact", appName, TRUE),
                       AdapterCall("ListMachines", appName, FALSE),
                       AdapterCall("GetAppStatus", appName, TRUE)>>]
    ELSE [status |-> [nil |-> FALSE, AppName |-> appName, Status |-> appOut.status,
                      Deployed |-> TRUE, MachineCount |-> Len(machOut.machines),
                      MachineStates |-> CountStates(machOut.machines)],
          err |-> NoErr,
          events |-> <<AdapterCall("GetAppCompact", appName, TRUE),
                       AdapterCall("ListMachines", appName, TRUE),
                       AdapterCall("GetAppStatus", appName, TRUE)>>]

MachineIdAt(i) == "m" \o ToString(i)

\* RestartMachine that starts the machine although the stop failed
RestartMachine_StartsAnyway(outcome, machineID) ==
    CASE outcome \in {"stop_fail", "ctx_cancelled"} ->
           [err |-> NoErr,
            events |-> <<AdapterCall("RestartMachine", machineID, TRUE),
                         AdapterCall("StopMachine", machineID, FALSE),
                         AdapterCall("StartMachine", machineID, TRUE)>>]
      [] outcome = "start_fail" ->
           [err |-> "failed to start machine during restart",
            events |-> <<AdapterCall("RestartMachine", machineID, FALSE),
                         AdapterCall("StopMachine", machineID, TRUE),
                         AdapterCall("StartMachine", machineID, FALSE)>>]
      [] OTHER ->
           [err |-> NoErr,
            events |-> <<AdapterCall("RestartMachine", machineID, TRUE),
                         AdapterCall("StopMachine", machineID, TRUE),
                         AdapterCall("StartMachine", machineID, TRUE)>>]

\* MachinesClient.RestartMachine under one outcome: stop, then start; the
\* first event is the call of RestartMachine itself
RestartMachine(outcome, machineID) ==
    CASE outcome \in {"stop_fail", "ctx_cancelled"} ->
           [err |-> "failed to stop machine during restart",
            events |-> <<AdapterCall("RestartMachine", machineID, FALSE),
                         AdapterCall("StopMachine", machineID, FALSE)>>]
      [] outcome = "start_fail" ->
           [err |-> "failed to start machine during restart",
            events |-> <<AdapterCall("RestartMachine", machineID, FALSE),
                         AdapterCall("StopMachine", machineID, TRUE),
                         AdapterCall("StartMachine", machineID, FALSE)>>]
      [] OTHER ->
           [err |-> NoErr,
            events |-> <<AdapterCall("RestartMachine", machineID, TRUE),
                         AdapterCall("StopMachine", machineID, TRUE),
                         AdapterCall("StartMachine", machineID, TRUE)>>]

\* RestartLoop that leaves the loop at the first machine that fails
RECURSIVE RestartLoop_BreakOnError(_, _, _)
RestartLoop_BreakOnError(outcomes, i, acc) ==
    IF i > Len(outcomes) THEN acc
    ELSE LET r == RestartMachine(outcomes[i], MachineIdAt(i))
             next == [successCount |-> acc.successCount + (IF r.err = NoErr THEN 1 ELSE 0),
                      errorCount |-> acc.errorCount + (IF r.err = NoErr THEN 0 ELSE 1),
                      events |-> acc.events \o r.events]
         IN IF r.err # NoErr THEN next
            ELSE RestartLoop_BreakOnError(outcomes, i + 1, next)

\* the loop of Client.RestartApp over machines i..n: the success count, the
\* number of restartErrors and the provider calls made
RECURSIVE RestartLoop(_, _, _)
RestartLoop(outcomes, i, acc) ==
    IF i > Len(outcomes) THEN acc
    ELSE LET r == RestartMachine(outcomes[i], MachineIdAt(i))
         IN RestartLoop(outcomes, i + 1,
               [successCount |-> acc.successCount + (IF r.err = NoErr THEN 1 ELSE 0),
                errorCount |-> acc.errorCount + (IF r.err = NoErr THEN 0 ELSE 1),
                events |-> acc.events \o r.events])

\* RestartApp that fails as soon as one machine failed (all or nothing)
RestartApp_AllOrNothing(machOut, outcomes, appName) ==
    IF machOut.err # NoErr
    THEN [err |-> "failed to get machines for app " \o appName \o ": " \o machOut.err,
          listed |-> FALSE, machines |-> 0, successCount |-> 0, errorCount |-> 0,
          events |-> <<AdapterCall("ListMachines", appName, FALSE),
                       AdapterCall("RestartApp", appName, FALSE)>>]
    ELSE IF Len(machOut.machines) = 0
    THEN [err |-> "no machines found for app " \o appName,
          listed |-> TRUE, machines |-> 0, successCount |-> 0, errorCount |-> 0,
          events |-> <<AdapterCall("ListMachines", appName, TRUE),
                       AdapterCall("RestartApp", appName, FALSE)>>]
    ELSE LET l == RestartLoop(outcomes, 1,
                     [successCount |-> 0, errorCount |-> 0,
                      events |-> <<AdapterCall("ListMachines", appName, TRUE)>>])
             failed == l.errorCount > 0
         IN [err |-> IF failed THEN "failed to restart any machines" ELSE NoErr,
             listed |-> TRUE, machines |-> Len(machOut.machines),
             successCount |-> l.successCount, errorCount |-> l.errorCount,
             events |-> Append(l.events, AdapterCall("RestartApp", appName, ~failed))]

\* Client.RestartApp: machOut is the provider's answer to ListMachines,
\* outcomes[i] how the restart of machine i goes.  listed and machines say
\* whether ListMachines succeeded and how many machines it returned.
RestartApp(machOut, outcomes, appName) ==
    IF machOut.err # NoErr
    THEN [err |-> "failed to get machines for app " \o appName \o ": " \o machOut.err,
          listed |-> FALSE, machines |-> 0, successCount |-> 0, errorCount |-> 0,
          events |-> <<AdapterCall("ListMachines", appName, FALSE),
                       AdapterCall("RestartApp", appName, FALSE)>>]
    ELSE IF Len(machOut.machines) = 0
    THEN [err |-> "no machines found for app " \o appName,
          listed |-> TRUE, machines |-> 0, successCount |-> 0, errorCount |-> 0,
          events |-> <<AdapterCall("ListMachines", appName, TRUE),
                       AdapterCall("RestartApp", appName, FALSE)>>]
    ELSE LET l == RestartLoop(outcomes, 1,
                     [successCount |-> 0, errorCount |-> 0,
                      events |-> <<AdapterCall("ListMachines", appName, TRUE)>>])
             failed == l.errorCount > 0 /\ l.successCount = 0
         IN [err |-> IF failed THEN "failed to restart any machines" ELSE NoErr,
             listed |-> TRUE, machines |-> Len(machOut.machines),
             successCount |-> l.successCount, errorCount |-> l.errorCount,
             events |-> Append(l.events, AdapterCall("RestartApp", appName, ~failed))]

(***************************************************************************)
(* The tools (pkg/mcp/ping_tool.go, pkg/tools)                             *)
(***************************************************************************)
\* what Name() of each tool type returns
PingTool_Name == "ping"
ListAppsTool_Name == "fly_list_apps"
AppInfoTool_Name == "fly_app_info"
AppStatusTool_Name == "fly_status"
AppRestartTool_Name == "fly_restart"
\* AppScaleTool is implemented, and nothing registers it
AppScaleTool_Name == "fly_scale"

\* registerTools with the AppInfoTool stored under the key fly_status too
registerTools_InfoUnderStatus ==
    ("ping" :> PingTool_Name) @@ ("fly_list_apps" :> ListAppsTool_Name)
        @@ ("fly_app_info" :> AppInfoTool_Name) @@ ("fly_status" :> AppInfoTool_Name)
        @@ ("fly_restart" :> AppRestartTool_Name)

\* Handler.registerTools: h.tools[key] = tool, given as key :> tool.Name()
registerTools ==
    ("ping" :> PingTool_Name) @@ ("fly_list_apps" :> ListAppsTool_Name)
        @@ ("fly_app_info" :> AppInfoTool_Name) @@ ("fly_status" :> AppStatusTool_Name)
        @@ ("fly_restart" :> AppRestartTool_Name)

\* the keys of h.tools after NewHandler
RegisteredTools == DOMAIN registerTools

\* the tools the README lists under Available MCP Tools
ReadmeTools ==
    {"ping", "fly_list_apps", "fly_app_info", "fly_status", "fly_restart", "fly_scale"}

\* the orders in which a range over a map with key set S may visit the keys
Orders(S) ==
    {o \in [1..Cardinality(S) -> S] : \A i, j \in 1..Cardinality(S) : o[i] = o[j] => i = j}

(***************************************************************************)
(* Construction: fly.NewClient, mcp.NewHandler, server.New, main           *)
(***************************************************************************)
\* the values of cfg.Fly.APIToken: unset, a dummy credential, a real token
APITokens == {"", "dummy-token", "fo1_token"}

\* flyClient.GetCurrentUser: the provider rejects every token but a real one
GetCurrentUser(token) ==
    IF token = "fo1_token" THEN NoErr ELSE "unauthorized"

\* Client.validateAuth
validateAuth(cfg) ==
    IF GetCurrentUser(cfg.APIToken) # NoErr
    THEN "authentication failed: " \o GetCurrentUser(cfg.APIToken)
    ELSE NoErr

\* fly.NewClient: the error it returns
NewClient(cfg) ==
    IF cfg.APIToken = "" THEN "Fly.io API token is required"
    ELSE IF validateAuth(cfg) # NoErr
    THEN "failed to validate Fly.io authentication: " \o validateAuth(cfg)
    ELSE NoErr

\* mcp.NewHandler: the registry of the handler it returns, and its error
NewHandler(cfg) ==
    IF NewClient(cfg) # NoErr
    THEN [tools |-> <<>>, err |-> "failed to create Fly.io client: " \o NewClient(cfg)]
    ELSE [tools |-> registerTools, err |-> NoErr]

\* server.New: the handler is built before the router and the HTTP server
New(cfg) ==
    IF NewHandler(cfg).err # NoErr
    THEN [tools |-> <<>>, err |-> "failed to create MCP handler: " \o NewHandler(cfg).err]
    ELSE [tools |-> NewHandler(cfg).tools, err |-> NoErr]

\* a request context that carries a user id
CtxUser_Alice == JStr("alice")

\* r.Context() as handleToolsCall passes it: nothing stores a "user_id" in it
CtxUser == Absent

\* RestartApp has not been called
NoRestart ==
    [called |-> FALSE, outcomes |-> <<>>, listed |-> FALSE, machines |-> 0,
     successCount |-> 0, errorCount |-> 0, err |-> NoErr]
\* what a call of RestartApp did, as Execute could observe it from the
\* provider side: r is what RestartApp returns in the model
RestartRecord(r, outcomes) ==
    [called |-> TRUE, outcomes |-> outcomes, listed |-> r.listed, machines |-> r.machines,
     successCount |-> r.successCount, errorCount |-> r.errorCount, err |-> r.err]

\* the locals of a running Execute
NoLocal ==
    [authz |-> "none", userID |-> "", appName |-> "", format |-> "text",
     includeStatus |-> TRUE, includeDetails |-> FALSE, statusFilter |-> "",
     reason |-> "", app |-> NilApp, status |-> NilStatus, restart |-> NoRestart]

\* PermissionDenied with the IsError flag left false
PermissionDenied_NotFlagged(err) == ToolResult("Permission denied: " \o err, FALSE)

\* the ToolResult every fly tool returns when ValidateRequest fails
PermissionDenied(err) == ToolResult("Permission denied: " \o err, TRUE)

\* appName, ok := args["app_name"].(string); !ok || appName == ""
BadAppName(a) == ~IsString(a.app_name) \/ a.app_name[2] = ""
\* AppNameRequired with no content block
AppNameRequired_NoContent ==
    [nil |-> FALSE, kind |-> "tool", isError |-> TRUE, content |-> <<>>, names |-> <<>>]

\* the ToolResult returned when app_name is missing, empty or not a string
AppNameRequired ==
    ToolResult("Error: app_name is required and must be a non-empty string", TRUE)

\* if v, ok := args[key].(string); ok { x = v }
StringOr(v, default) == IF IsString(v) THEN v[2] ELSE default
\* if v, ok := args[key].(bool); ok { x = v }
BoolOr(v, default) == IF IsBool(v) THEN v = JTrue ELSE default

\* ConfirmMissing that only looks at the type assertion (!ok)
ConfirmMissing_AbsentOnly(a) == ~IsBool(a.confirm)

\* confirm, ok := args["confirm"].(bool); !ok || !confirm
ConfirmMissing(a) == ~IsBool(a.confirm) \/ a.confirm # JTrue

\* ConfirmationRequired with the IsError flag left false
ConfirmationRequired_NotFlagged(appName) ==
    ToolResult("Restart Confirmation Required: set confirm: true; app_name: "
                   \o appName, FALSE)

\* the guidance result of fly_restart when confirm is not true
ConfirmationRequired(appName) ==
    ToolResult("Restart Confirmation Required: set confirm: true; app_name: "
                   \o appName, TRUE)

\* ListAppsTool.Execute after GetApps succeeded: filter, then format.
\* The summary branch formats app.UpdatedAt of every app.
ListAppsFormat(apps, statusFilter, includeDetails) ==
    LET filtered == IF statusFilter # ""
                    THEN SelectSeq(apps, LAMBDA a : a.Status = statusFilter)
                    ELSE apps
    IN IF Len(filtered) = 0
       THEN [panic |-> FALSE,
             result |-> ToolResult(IF statusFilter # ""
                                   THEN "No applications found with status "
                                            \o statusFilter
                                   ELSE "No applications found", FALSE)]
       ELSE IF includeDetails
       THEN [panic |-> FALSE,
             result |-> ToolResult("Found " \o ToString(Len(filtered))
                                       \o " applications: json", FALSE)]
       ELSE IF \E i \in 1..Len(filtered) : filtered[i].UpdatedAt = NilPtr
       THEN [panic |-> TRUE, result |-> NilResult]
       ELSE [panic |-> FALSE,
             result |-> ToolResult("Found " \o ToString(Len(filtered))
                                       \o " applications", FALSE)]

\* AppInfoTool.formatJSONResponse / formatTextResponse; the text branch
\* formats app.CreatedAt and app.UpdatedAt
AppInfoFormat(app, format) ==
    IF format = "json"
    THEN [panic |-> FALSE,
          result |-> ToolResult("Application information for " \o app.Name
                                    \o ": json", FALSE)]
    ELSE IF app.CreatedAt = NilPtr \/ app.UpdatedAt = NilPtr
    THEN [panic |-> TRUE, result |-> NilResult]
    ELSE [panic |-> FALSE,
          result |-> ToolResult("# Application: " \o app.Name, FALSE)]

\* AppStatusTool.formatJSONResponse / formatTextResponse
AppStatusFormat(status, format) ==
    IF format = "json"
    THEN ToolResult("Status for application " \o status.AppName \o ": json", FALSE)
    ELSE ToolResult("# " \o status.AppName \o " Status: " \o status.Status
                        \o "; Total Machines: " \o ToString(status.MachineCount), FALSE)

\* the lines of the Restart Summary section of the success text, by label
RestartSummary(appName, statusBefore, reason, userID) ==
    [Application |-> appName,
     StatusBefore |-> statusBefore.Status,
     MachinesRestarted |-> statusBefore.MachineCount,
     Reason |-> reason,
     InitiatedBy |-> userID]

\* the success result of AppRestartTool.Execute
RestartSuccess(appName, statusBefore, reason, userID) ==
    LET sum == RestartSummary(appName, statusBefore, reason, userID)
    IN ToolResult("Application " \o sum.Application \o " Restart Initiated; Status Before: "
                      \o sum.StatusBefore \o "; Machines Restarted: "
                      \o ToString(sum.MachinesRestarted)
                      \o (IF sum.Reason # "" THEN "; Reason: " \o sum.Reason ELSE "")
                      \o "; Initiated By: " \o sum.InitiatedBy, FALSE)

(***************************************************************************)
(* The process: runServer, Server.Start, Server.Shutdown                   *)
(*   main      : where runServer is: "select" (waiting for a signal),       *)
(*               "signalled", "cancelled" (cancel() was called),           *)
(*               "shutdown" (inside srv.Shutdown), "returned"              *)
(*   ctx       : the context runServer makes and passes to Server.Start    *)
(*   start     : the goroutine running Server.Start                        *)
(*   listening : the HTTP server accepts new requests                      *)
(*   err       : what runServer returns                                    *)
(***************************************************************************)
NewProc ==
    [main |-> "select", ctx |-> "active", start |-> "serving", listening |-> TRUE,
     err |-> NoErr]

\* a request slot: state is "none", "executing" (inside tool.Execute) or
\* "done"; ctx is r.Context(): "active" or "cancelled"; cause is what
\* cancelled it
NoRequest == [state |-> "none", ctx |-> "active", cause |-> "none"]
NoInflight == [i \in 1..MaxInflight |-> NoRequest]

\* the context of a request the HTTP server accepted: no BaseContext is
\* configured, so it derives from context.Background(), not from the
\* context of runServer
RequestContext(p) == [state |-> "executing", ctx |-> "active", cause |-> "none"]

NoQuery ==
    [fn |-> "", ctxUser |-> Absent, user |-> "", action |-> "", resource |-> "",
     perm |-> "", err |-> NoErr, granted |-> FALSE, events |-> <<>>]

\* main: server.New, then Start; when New fails the process exits and no
\* request is ever served
Init ==
    /\ flyConfig \in {[APIToken |-> t] : t \in APITokens}
    /\ tools = New(flyConfig).tools
    /\ permissions \in PipelineTables
    /\ pc = IF New(flyConfig).err = NoErr THEN "idle" ELSE "exited"
    /\ body = NoBody
    /\ req = EmptyReq
    /\ toolName = ""
    /\ args = EmptyArgs
    /\ local = NoLocal
    /\ ret = NoRet
    /\ w = NewWriter
    /\ events = <<>>
    /\ proc = NewProc
    /\ inflight = NoInflight
    /\ aq = NoQuery

\* a request arrives at POST /mcp: server.handleMCP calls HandleRequest with
\* a fresh writer and a fresh request
Receive ==
    /\ pc = "idle"
    /\ \E b \in Bodies : body' = b
    /\ pc' = "decode"
    /\ UNCHANGED <<proc, inflight, flyConfig, tools, permissions, req, toolName, args, local, ret, w, events, aq>>

\* HandleRequest: decode the body; a decode error is answered at once
HandleRequest_Decode ==
    /\ pc = "decode"
    /\ LET d == Decode(body)
       IN IF ~d.ok
          THEN \E encOK \in BOOLEAN :
                  LET s == sendError(w, -32700, "Parse error", FALSE, "", "", encOK)
                  IN /\ w' = s.w
                     /\ ret' = Return(NoId, NilResult, s.err)
                     /\ pc' = "return"
                     /\ UNCHANGED <<req, events>>
          ELSE /\ req' = d.req
               /\ events' = Append(events, LogMCPRequest(d.req.Method))
               /\ pc' = "route"
               /\ UNCHANGED <<w, ret>>
    /\ UNCHANGED <<proc, inflight, flyConfig, tools, permissions, body, toolName, args, local, aq>>

\* a method handler returns (response, err) to HandleRequest
HandlerReturns(r) ==
    /\ ret' = r
    /\ pc' = "respond"
    /\ UNCHANGED <<proc, inflight, flyConfig, tools, permissions, body, req, toolName, args, local, w, events, aq>>

handleInitialize ==
    /\ pc = "route" /\ req.Method = "initialize"
    /\ HandlerReturns(Return(req.ID, MapResult("initialize", <<>>), NoErr))

handleToolsList ==
    /\ pc = "route" /\ req.Method = "tools/list"
    /\ \E o \in Orders(DOMAIN tools) :
          HandlerReturns(Return(req.ID,
              MapResult("tools", [i \in 1..Len(o) |-> tools[o[i]]]), NoErr))

handleResourcesList ==
    /\ pc = "route" /\ req.Method = "resources/list"
    /\ HandlerReturns(Return(req.ID, MapResult("resources", <<>>), NoErr))

handleResourcesRead ==
    /\ pc = "route" /\ req.Method = "resources/read"
    /\ HandlerReturns(Return(NoId, NilResult, "resources/read not implemented"))

\* the default branch of the switch
UnsupportedMethod ==
    /\ pc = "route" /\ req.Method \notin KnownMethods
    /\ HandlerReturns(Return(NoId, NilResult, "unsupported method: " \o req.Method))

\* ToolNotFound that leaves the name out of the message
ToolNotFound_NoName(name) == "tool not found"

\* fmt.Errorf("tool not found: %s", toolName)
ToolNotFound(name) == "tool not found: " \o name

\* handleToolsCall up to the call of tool.Execute
handleToolsCall ==
    /\ pc = "route" /\ req.Method = "tools/call"
    /\ LET params == req.Params
           name == params.name
           arguments == IF params.arguments.kind = "object"
                        THEN params.arguments ELSE EmptyArgs
       IN IF params.kind # "object"
          THEN HandlerReturns(Return(NoId, NilResult, "invalid parameters for tools/call"))
          ELSE IF ~IsString(name)
          THEN HandlerReturns(Return(NoId, NilResult, "tool name is required"))
          ELSE IF name[2] \notin DOMAIN tools
          THEN HandlerReturns(Return(NoId, NilResult, ToolNotFound(name[2])))
          ELSE /\ toolName' = name[2]
               /\ args' = arguments
               /\ events' = Append(events, ExecuteInvoked(name[2]))
               /\ pc' = "execute"
               /\ UNCHANGED <<proc, inflight, flyConfig, tools, permissions, body, req, local, ret, w, aq>>

\* Execute returns (result, nil) to handleToolsCall
ToolReturns(result, evs, loc) ==
    /\ ret' = Return(NoId, result, NoErr)
    /\ events' = events \o evs
    /\ local' = loc
    /\ pc' = "toolreturn"
    /\ UNCHANGED <<proc, inflight, flyConfig, tools, permissions, body, req, toolName, args, w, aq>>

\* Execute goes on to its next provider call
ToolContinues(next, evs, loc) ==
    /\ events' = events \o evs
    /\ local' = loc
    /\ pc' = next
    /\ UNCHANGED <<proc, inflight, flyConfig, tools, permissions, body, req, toolName, args, ret, w, aq>>

\* Execute panics: nothing is returned
ToolPanics(evs, loc) == ToolContinues("panic", evs, loc)

PingTool_Execute ==
    /\ pc = "execute" /\ toolName = "ping"
    /\ LET message == IF IsString(args.message) /\ args.message[2] # ""
                      THEN args.message[2] ELSE "Hello from fly-mcp!"
       IN ToolReturns(ToolResult("Pong! " \o message \o " Timestamp: now", FALSE),
                      <<>>, local)

\* ListAppsTool.Execute up to the call of GetApps
ListAppsTool_Execute ==
    /\ pc = "execute" /\ toolName = "fly_list_apps"
    /\ LET v == ValidateRequest(permissions, CtxUser, "read", "apps")
       IN IF v[1] # NoErr
          THEN ToolReturns(PermissionDenied(v[1]), v[2], [local EXCEPT !.authz = "denied"])
          ELSE ToolContinues("GetApps", v[2],
                  [local EXCEPT !.authz = "ok",
                                !.statusFilter = StringOr(args.status_filter, ""),
                                !.includeDetails = BoolOr(args.include_details, FALSE),
                                !.userID = ExtractUserFromContext(CtxUser)])

\* ListAppsTool.Execute from the call of GetApps to its return
ListAppsTool_GetApps ==
    /\ pc = "GetApps" /\ toolName = "fly_list_apps"
    /\ \E out \in GetAppsOutcomes :
          LET g == GetApps(out)
              f == ListAppsFormat(g.apps, local.statusFilter, local.includeDetails)
          IN IF g.err # NoErr
             THEN ToolReturns(
                     ToolResult("Failed to retrieve apps from Fly.io: " \o g.err, TRUE),
                     Append(g.events, AuditLog(local.userID, "list_apps", "apps", "failed")),
                     local)
             ELSE IF f.panic
             THEN ToolPanics(
                     Append(g.events, AuditLog(local.userID, "list_apps", "apps", "success")),
                     local)
             ELSE ToolReturns(f.result,
                     Append(g.events, AuditLog(local.userID, "list_apps", "apps", "success")),
                     local)

\* AppInfoTool.Execute up to the call of GetApp
AppInfoTool_Execute ==
    /\ pc = "execute" /\ toolName = "fly_app_info"
    /\ LET v == ValidateRequest(permissions, CtxUser, "read", "app")
       IN IF v[1] # NoErr
          THEN ToolReturns(PermissionDenied(v[1]), v[2], [local EXCEPT !.authz = "denied"])
          ELSE IF BadAppName(args)
          THEN ToolReturns(AppNameRequired, v[2], [local EXCEPT !.authz = "ok"])
          ELSE ToolContinues("GetApp", v[2],
                  [local EXCEPT !.authz = "ok",
                                !.appName = args.app_name[2],
                                !.includeStatus = BoolOr(args.include_status, TRUE),
                                !.format = StringOr(args.format, "text"),
                                !.userID = ExtractUserFromContext(CtxUser)])

\* AppInfoTool.Execute from the call of GetApp; without include_status it
\* runs to its return
AppInfoTool_GetApp ==
    /\ pc = "GetApp" /\ toolName = "fly_app_info"
    /\ \E out \in GetAppCompactOutcomes :
          LET g == GetApp(out, local.appName)
              f == AppInfoFormat(g.app, local.format)
              ok == Append(g.events,
                           AuditLog(local.userID, "get_app_info", local.appName, "success"))
          IN IF g.err # NoErr
             THEN ToolReturns(
                     ToolResult("Failed to retrieve app information for "
                                    \o local.appName \o ": " \o g.err, TRUE),
                     Append(g.events,
                            AuditLog(local.userID, "get_app_info", local.appName, "failed")),
                     local)
             ELSE IF local.includeStatus
             THEN ToolContinues("GetAppStatus", g.events, [local EXCEPT !.app = g.app])
             ELSE IF f.panic
             THEN ToolPanics(ok, [local EXCEPT !.app = g.app])
             ELSE ToolReturns(f.result, ok, [local EXCEPT !.app = g.app])

\* AppInfoTool.Execute from the call of GetAppStatus to its return; a
\* failed status lookup is only logged
AppInfoTool_GetAppStatus ==
    /\ pc = "GetAppStatus" /\ toolName = "fly_app_info"
    /\ \E appOut \in GetAppCompactOutcomes, machOut \in ListMachinesOutcomes :
          LET g == GetAppStatus(appOut, machOut, local.appName)
              f == AppInfoFormat(local.app, local.format)
              evs == Append(g.events,
                            AuditLog(local.userID, "get_app_info", local.appName, "success"))
              loc == [local EXCEPT !.status = g.status]
          IN IF f.panic THEN ToolPanics(evs, loc) ELSE ToolReturns(f.result, evs, loc)

\* AppStatusTool.Execute that goes on after a failed ValidateRequest
AppStatusTool_Execute_DeniedContinues ==
    /\ pc = "execute" /\ toolName = "fly_status"
    /\ LET v == ValidateRequest(permissions, CtxUser, "read", "app")
       IN IF BadAppName(args)
          THEN ToolReturns(AppNameRequired, v[2],
                  [local EXCEPT !.authz = IF v[1] = NoErr THEN "ok" ELSE "denied"])
          ELSE ToolContinues("GetAppStatus", v[2],
                  [local EXCEPT !.authz = IF v[1] = NoErr THEN "ok" ELSE "denied",
                                !.appName = args.app_name[2],
                                !.format = StringOr(args.format, "text"),
                                !.userID = ExtractUserFromContext(CtxUser)])

\* AppStatusTool.Execute up to the call of GetAppStatus
AppStatusTool_Execute ==
    /\ pc = "execute" /\ toolName = "fly_status"
    /\ LET v == ValidateRequest(permissions, CtxUser, "read", "app")
       IN IF v[1] # NoErr
          THEN ToolReturns(PermissionDenied(v[1]), v[2], [local EXCEPT !.authz = "denied"])
          ELSE IF BadAppName(args)
          THEN ToolReturns(AppNameRequired, v[2], [local EXCEPT !.authz = "ok"])
          ELSE ToolContinues("GetAppStatus", v[2],
                  [local EXCEPT !.authz = "ok",
                                !.appName = args.app_name[2],
                                !.format = StringOr(args.format, "text"),
                                !.userID = ExtractUserFromContext(CtxUser)])

\* AppStatusTool.Execute from the call of GetAppStatus to its return
AppStatusTool_GetAppStatus ==
    /\ pc = "GetAppStatus" /\ toolName = "fly_status"
    /\ \E appOut \in GetAppCompactOutcomes, machOut \in ListMachinesOutcomes :
          LET g == GetAppStatus(appOut, machOut, local.appName)
          IN IF g.err # NoErr
             THEN ToolReturns(
                     ToolResult("Failed to retrieve status for app "
                                    \o local.appName \o ": " \o g.err, TRUE),
                     Append(g.events,
                            AuditLog(local.userID, "get_app_status", local.appName, "failed")),
                     local)
             ELSE ToolReturns(AppStatusFormat(g.status, local.format),
                     Append(g.events,
                            AuditLog(local.userID, "get_app_status", local.appName, "success")),
                     [local EXCEPT !.status = g.status])

\* AppRestartTool.Execute without the ValidateRequest call
AppRestartTool_Execute_NoValidateRequest ==
    /\ pc = "execute" /\ toolName = "fly_restart"
    /\ IF BadAppName(args)
       THEN ToolReturns(AppNameRequired, <<>>, local)
       ELSE IF ConfirmMissing(args)
       THEN ToolReturns(ConfirmationRequired(args.app_name[2]), <<>>,
               [local EXCEPT !.appName = args.app_name[2]])
       ELSE ToolContinues("GetAppStatus", <<>>,
               [local EXCEPT !.appName = args.app_name[2],
                             !.reason = StringOr(args.reason, ""),
                             !.userID = ExtractUserFromContext(CtxUser)])

\* AppRestartTool.Execute up to the call of GetAppStatus
AppRestartTool_Execute ==
    /\ pc = "execute" /\ toolName = "fly_restart"
    /\ LET v == ValidateRequest(permissions, CtxUser, "restart", "app")
       IN IF v[1] # NoErr
          THEN ToolReturns(PermissionDenied(v[1]), v[2], [local EXCEPT !.authz = "denied"])
          ELSE IF BadAppName(args)
          THEN ToolReturns(AppNameRequired, v[2], [local EXCEPT !.authz = "ok"])
          ELSE IF ConfirmMissing(args)
          THEN ToolReturns(ConfirmationRequired(args.app_name[2]), v[2],
                  [local EXCEPT !.authz = "ok", !.appName = args.app_name[2]])
          ELSE ToolContinues("GetAppStatus", v[2],
                  [local EXCEPT !.authz = "ok",
                                !.appName = args.app_name[2],
                                !.reason = StringOr(args.reason, ""),
                                !.userID = ExtractUserFromContext(CtxUser)])

\* AppRestartTool.Execute that restarts whatever the status check says
AppRestartTool_GetAppStatus_IgnoresError ==
    /\ pc = "GetAppStatus" /\ toolName = "fly_restart"
    /\ \E appOut \in GetAppCompactOutcomes, machOut \in ListMachinesOutcomes :
          LET g == GetAppStatus(appOut, machOut, local.appName)
          IN ToolContinues("RestartApp", g.events, [local EXCEPT !.status = g.status])

\* AppRestartTool.Execute: the status check before the restart
AppRestartTool_GetAppStatus ==
    /\ pc = "GetAppStatus" /\ toolName = "fly_restart"
    /\ \E appOut \in GetAppCompactOutcomes, machOut \in ListMachinesOutcomes :
          LET g == GetAppStatus(appOut, machOut, local.appName)
          IN IF g.err # NoErr
             THEN ToolReturns(
                     ToolResult("Failed to check app status before restart for "
                                    \o local.appName \o ": " \o g.err
                                    \o " The restart was not performed for safety reasons.",
                                TRUE),
                     Append(g.events,
                            AuditLog(local.userID, "restart_app", local.appName,
                                     "failed_status_check")),
                     local)
             ELSE ToolContinues("RestartApp", g.events, [local EXCEPT !.status = g.status])

\* AppRestartTool.Execute from the call of RestartApp to its return
AppRestartTool_RestartApp ==
    /\ pc = "RestartApp" /\ toolName = "fly_restart"
    /\ \E machOut \in ListMachinesOutcomes :
          \E outcomes \in RestartOutcomeSeqs(Len(machOut.machines)) :
             LET r == RestartApp(machOut, outcomes, local.appName)
                 loc == [local EXCEPT !.restart = RestartRecord(r, outcomes)]
             IN IF r.err # NoErr
                THEN ToolReturns(
                        ToolResult("Restart Failed: Failed to restart app "
                                       \o local.appName \o ": " \o r.err, TRUE),
                        Append(r.events,
                               AuditLog(local.userID, "restart_app", local.appName, "failed")),
                        loc)
                ELSE ToolReturns(
                        RestartSuccess(local.appName, local.status, local.reason,
                                       local.userID),
                        Append(r.events,
                               AuditLog(local.userID, "restart_app", local.appName, "success")),
                        loc)

\* handleToolsCall after tool.Execute returned
handleToolsCall_Return ==
    /\ pc = "toolreturn"
    /\ events' = Append(events, LogToolExecution("unknown", toolName, ret.err))
    /\ ret' = IF ret.err # NoErr
              THEN Return(NoId, NilResult, "tool execution failed: " \o ret.err)
              ELSE Return(req.ID, ret.Result, NoErr)
    /\ pc' = "respond"
    /\ UNCHANGED <<proc, inflight, flyConfig, tools, permissions, body, req, toolName, args, local, w, aq>>

\* HandleRequest after the method handler returned: log, then write the
\* error or the response; what it returns is the encoder's error
HandleRequest_Respond ==
    /\ pc = "respond"
    /\ \E encOK \in BOOLEAN :
          LET s == IF ret.err # NoErr
                   THEN sendError(w, -32601, "Method not found", TRUE,
                                  req.Method, ret.err, encOK)
                   ELSE sendResponse(w, MCPResponse(ret.ID, ret.Result, NilError), encOK)
          IN /\ w' = s.w
             /\ ret' = Return(NoId, NilResult, s.err)
    /\ events' = Append(events, LogMCPResponse(req.Method, ret.err = NoErr))
    /\ pc' = "return"
    /\ UNCHANGED <<proc, inflight, flyConfig, tools, permissions, body, req, toolName, args, local, aq>>

\* Server.handleMCP after HandleRequest returned
handleMCP ==
    /\ pc = "return"
    /\ w' = IF ret.err # NoErr THEN HttpError(w, StatusInternalServerError) ELSE w
    /\ pc' = "done"
    /\ UNCHANGED <<proc, inflight, flyConfig, tools, permissions, body, req, toolName, args, local, ret, events, aq>>

\* a panic inside Execute: neither handleToolsCall, HandleRequest nor
\* handleMCP recovers, so the request ends with the connection dropped
handleMCP_Panic ==
    /\ pc = "panic"
    /\ w' = [w EXCEPT !.aborted = TRUE]
    /\ pc' = "done"
    /\ UNCHANGED <<proc, inflight, flyConfig, tools, permissions, body, req, toolName, args, local, ret, events, aq>>

\* the request is over: its request, writer and locals are dropped and the
\* server waits for the next one
RequestDone ==
    /\ pc = "done"
    /\ pc' = "idle"
    /\ body' = NoBody
    /\ req' = EmptyReq
    /\ toolName' = ""
    /\ args' = EmptyArgs
    /\ local' = NoLocal
    /\ ret' = NoRet
    /\ w' = NewWriter
    /\ events' = <<>>
    /\ UNCHANGED <<proc, inflight, flyConfig, tools, permissions, aq>>

Next ==
    \/ Receive
    \/ RequestDone
    \/ HandleRequest_Decode
    \/ handleInitialize
    \/ handleToolsList
    \/ handleResourcesList
    \/ handleResourcesRead
    \/ UnsupportedMethod
    \/ handleToolsCall
    \/ PingTool_Execute
    \/ ListAppsTool_Execute
    \/ ListAppsTool_GetApps
    \/ AppInfoTool_Execute
    \/ AppInfoTool_GetApp
    \/ AppInfoTool_GetAppStatus
    \/ AppStatusTool_Execute
    \/ AppStatusTool_GetAppStatus
    \/ AppRestartTool_Execute
    \/ AppRestartTool_GetAppStatus
    \/ AppRestartTool_RestartApp
    \/ handleToolsCall_Return
    \/ HandleRequest_Respond
    \/ handleMCP
    \/ handleMCP_Panic

Spec == Init /\ [][Next]_vars

(***************************************************************************)
(* SpecAuth: the authorization manager on bounded inputs                   *)
(***************************************************************************)
\* the user ids asked about: configured, unconfigured, and the key "default"
QueryUsers == {"alice", "bob", "default"}
\* the values ctx.Value("user_id") may hold
QueryCtxUsers == {Absent, JStr(""), JStr("alice"), JStr("bob"), JNum}
QueryPermissions == {"fly:read", "read:app", "restart:app"}

InitAuth ==
    /\ flyConfig = [APIToken |-> "fo1_token"]
    /\ tools = registerTools
    /\ permissions \in AuthTables
    /\ pc = "auth"
    /\ body = NoBody
    /\ req = EmptyReq
    /\ toolName = ""
    /\ args = EmptyArgs
    /\ local = NoLocal
    /\ ret = NoRet
    /\ w = NewWriter
    /\ events = <<>>
    /\ proc = NewProc
    /\ inflight = NoInflight
    /\ aq = NoQuery

CallValidatePermissions ==
    /\ pc = "auth"
    /\ \E u \in QueryUsers, a \in Actions, r \in Resources :
          LET err == ValidatePermissions(permissions, u, a, r)
          IN aq' = [fn |-> "ValidatePermissions", ctxUser |-> Absent, user |-> u, action |-> a,
                    resource |-> r, perm |-> "", err |-> err,
                    granted |-> err = NoErr, events |-> <<>>]
    /\ pc' = "answered"
    /\ UNCHANGED <<proc, inflight, flyConfig, tools, permissions, body, req, toolName, args, local, ret, w, events>>

CallHasPermission ==
    /\ pc = "auth"
    /\ \E u \in QueryUsers, p \in QueryPermissions :
          aq' = [fn |-> "HasPermission", ctxUser |-> Absent, user |-> u, action |-> "",
                 resource |-> "",
                 perm |-> p, err |-> NoErr,
                 granted |-> HasPermission(permissions, u, p), events |-> <<>>]
    /\ pc' = "answered"
    /\ UNCHANGED <<proc, inflight, flyConfig, tools, permissions, body, req, toolName, args, local, ret, w, events>>

CallValidateRequest ==
    /\ pc = "auth"
    /\ \E cu \in QueryCtxUsers, a \in Actions, r \in Resources :
          LET v == ValidateRequest(permissions, cu, a, r)
          IN aq' = [fn |-> "ValidateRequest", ctxUser |-> cu,
                    user |-> ExtractUserFromContext(cu),
                    action |-> a, resource |-> r, perm |-> "", err |-> v[1],
                    granted |-> v[1] = NoErr, events |-> v[2]]
    /\ pc' = "answered"
    /\ UNCHANGED <<proc, inflight, flyConfig, tools, permissions, body, req, toolName, args, local, ret, w, events>>

\* the caller has the answer; the manager keeps no state between calls
AuthReturn ==
    /\ pc = "answered"
    /\ pc' = "auth"
    /\ aq' = NoQuery
    /\ UNCHANGED <<proc, inflight, flyConfig, tools, permissions, body, req, toolName, args, local, ret, w, events>>

NextAuth ==
    \/ CallValidatePermissions
    \/ CallHasPermission
    \/ CallValidateRequest
    \/ AuthReturn

SpecAuth == InitAuth /\ [][NextAuth]_vars

(***************************************************************************)
(* SpecShutdown: requests in flight while the process is told to stop      *)
(***************************************************************************)
\* the variables of the pipeline of one request, which SpecShutdown leaves alone
pipeline ==
    <<flyConfig, tools, permissions, pc, body, req, toolName, args, local, ret, w, events, aq>>

InitShutdown ==
    /\ flyConfig = [APIToken |-> "fo1_token"]
    /\ tools = registerTools
    /\ permissions = ConfigLocalPermissions
    /\ pc = "idle"
    /\ body = NoBody
    /\ req = EmptyReq
    /\ toolName = ""
    /\ args = EmptyArgs
    /\ local = NoLocal
    /\ ret = NoRet
    /\ w = NewWriter
    /\ events = <<>>
    /\ proc = NewProc
    /\ inflight = NoInflight
    /\ aq = NoQuery

\* the process is alive: runServer has not returned
Running == proc.main # "returned"

\* the HTTP server accepts a tools/call and the handler enters tool.Execute
\* with r.Context()
Accept(i) ==
    /\ Running /\ proc.listening
    /\ inflight[i].state = "none"
    /\ inflight' = [inflight EXCEPT ![i] = RequestContext(proc)]
    /\ UNCHANGED <<proc, pipeline>>

\* the client of a request goes away: net/http cancels the request context
ClientDisconnects(i) ==
    /\ Running
    /\ inflight[i].state = "executing" /\ inflight[i].ctx = "active"
    /\ inflight' = [inflight EXCEPT ![i].ctx = "cancelled", ![i].cause = "client"]
    /\ UNCHANGED <<proc, pipeline>>

\* Execute returns and the handler finishes: the request context is
\* cancelled when ServeHTTP returns
Execute_Returns(i) ==
    /\ Running
    /\ inflight[i].state = "executing"
    /\ inflight' = [inflight EXCEPT ![i].state = "done",
                                    ![i].ctx = "cancelled",
                                    ![i].cause = IF inflight[i].ctx = "active"
                                                 THEN "handler" ELSE @]
    /\ UNCHANGED <<proc, pipeline>>

\* runServer: case sig := <-sigChan
runServer_Signal ==
    /\ proc.main = "select"
    /\ proc' = [proc EXCEPT !.main = "signalled"]
    /\ UNCHANGED <<inflight, pipeline>>

\* runServer: cancel(); only the context handed to Server.Start is cancelled
runServer_cancel ==
    /\ proc.main = "signalled"
    /\ proc' = [proc EXCEPT !.main = "cancelled", !.ctx = "cancelled"]
    /\ UNCHANGED <<inflight, pipeline>>

\* Server.Start: case <-ctx.Done(): return ctx.Err(); the HTTP server it
\* started keeps running
Start_Returns ==
    /\ Running
    /\ proc.start = "serving" /\ proc.ctx = "cancelled"
    /\ proc' = [proc EXCEPT !.start = "returned"]
    /\ UNCHANGED <<inflight, pipeline>>

\* runServer calls srv.Shutdown: httpServer.Shutdown closes the listener
\* and waits for the requests in flight
Shutdown ==
    /\ proc.main = "cancelled"
    /\ proc' = [proc EXCEPT !.main = "shutdown", !.listening = FALSE]
    /\ UNCHANGED <<inflight, pipeline>>

\* httpServer.Shutdown returns nil: no request is in flight any more
Shutdown_Returns ==
    /\ proc.main = "shutdown"
    /\ \A i \in 1..MaxInflight : inflight[i].state # "executing"
    /\ proc' = [proc EXCEPT !.main = "returned"]
    /\ UNCHANGED <<inflight, pipeline>>

\* the 30 s of shutdownCtx pass with requests still in flight: Shutdown
\* returns the context error and runServer returns it; the process exits
Shutdown_Timeout ==
    /\ proc.main = "shutdown"
    /\ \E i \in 1..MaxInflight : inflight[i].state = "executing"
    /\ proc' = [proc EXCEPT !.main = "returned",
                            !.err = "server shutdown failed: context deadline exceeded"]
    /\ UNCHANGED <<inflight, pipeline>>

NextShutdown ==
    \/ \E i \in 1..MaxInflight : Accept(i)
    \/ \E i \in 1..MaxInflight : ClientDisconnects(i)
    \/ \E i \in 1..MaxInflight : Execute_Returns(i)
    \/ runServer_Signal
    \/ runServer_cancel
    \/ Start_Returns
    \/ Shutdown
    \/ Shutdown_Returns
    \/ Shutdown_Timeout

SpecShutdown == InitShutdown /\ [][NextShutdown]_vars

(***************************************************************************)
(* Properties                                                              *)
(***************************************************************************)
\* the Response Envelopes written so far
Envelopes == SelectSeq(w.out, LAMBDA b : b.kind = "envelope")

\* the tools whose Execute asks for a permission
FlyTools == {"fly_list_apps", "fly_app_info", "fly_status", "fly_restart"}

\* the provider or adapter has been called at position i of events
IsAdapterCall(i) == events[i].kind = "adapter"

\* the places of the pipeline where a provider call is about to be made
AtAdapter == pc \in {"GetApps", "GetApp", "GetAppStatus", "RestartApp"}

\* a body json.Decode rejects: not JSON, a top-level array, or an object
\* whose method is not a string
Malformed(b) ==
    \/ b.top \in {"garbage", "array"}
    \/ b.top = "object" /\ b.method[1] \notin {"str", "absent"}

\* C1: for every well-formed request with a known method, every Response
\* Envelope written carries the request's id, on success and on error alike.
C1_IdEchoed ==
    (body.top = "object" /\ ~Malformed(body) /\ req.Method \in KnownMethods)
        => \A i \in 1..Len(Envelopes) : Envelopes[i].id = req.ID

\* C2: every Response Envelope written has exactly one of result / error.
C2_ResultXorError ==
    \A i \in 1..Len(Envelopes) : Envelopes[i].hasResult # Envelopes[i].hasError

\* an error envelope of a handler failure has been written
C2_Witness ==
    /\ pc = "done"
    /\ Len(Envelopes) = 1
    /\ Envelopes[1].hasError
    /\ Envelopes[1].error.Code = -32601

C4_NoRestartWithoutConfirm ==
    (toolName = "fly_restart" /\ args.confirm # JTrue)
       => /\ pc # "RestartApp"
          /\ \A i \in 1..Len(events) :
                IsAdapterCall(i)
                   => events[i].name \notin {"RestartApp", "StopMachine", "StartMachine"}
          /\ pc = "toolreturn" => (ret.err = NoErr /\ ~ret.Result.nil)
          /\ pc # "panic"

\* an authorized fly_restart with confirm false has returned
C4_Witness ==
    /\ toolName = "fly_restart"
    /\ pc = "toolreturn"
    /\ local.authz = "ok"
    /\ args.confirm = JFalse
    /\ ~BadAppName(args)

\* an authorized fly_restart with a valid app_name and confirm absent or
\* false has returned from Execute
GuidanceReturned ==
    /\ toolName = "fly_restart"
    /\ pc = "toolreturn"
    /\ local.authz = "ok"
    /\ IsString(args.app_name) /\ args.app_name[2] # ""
    /\ args.confirm \in {Absent, JFalse}

\* C5 as stated: the guidance ToolResult has isError false.
C5_GuidanceNotError == GuidanceReturned => ret.Result.isError = FALSE

\* C5 amended: the guidance ToolResult is returned with a nil error and has
\* isError true and one text block.
C5_GuidanceFlagged ==
    GuidanceReturned
       => /\ ret.err = NoErr
          /\ ~ret.Result.nil
          /\ ret.Result.isError = TRUE
          /\ Len(ret.Result.content) = 1

\* the guidance was returned for an absent confirm
C5_Witness == GuidanceReturned /\ args.confirm = Absent

\* the permission set the claim speaks of: the own entry, else "default",
\* else nothing
ResolvedSet(perms, user) ==
    IF user \in DOMAIN perms THEN perms[user]
    ELSE IF "default" \in DOMAIN perms THEN perms["default"]
    ELSE {}

\* the set contains action:resource, action:* or *
Contains(set, action, resource) ==
    {action \o ":" \o resource, action \o ":*", "*"} \cap set # {}

\* C6: ValidatePermissions succeeds iff the resolved set contains
\* action:resource, action:* or *; {read:apps} grants (read, apps) and denies
\* (restart, apps), {*} grants everything, no entry at all denies everything.
C6_ValidatePermissionsIff ==
    aq.fn = "ValidatePermissions"
       => LET set == ResolvedSet(permissions, aq.user)
          IN /\ (aq.err = NoErr) <=> Contains(set, aq.action, aq.resource)
             /\ (set = {"read:apps"} /\ aq.action = "read" /\ aq.resource = "apps")
                   => aq.err = NoErr
             /\ (set = {"read:apps"} /\ aq.action = "restart" /\ aq.resource = "apps")
                   => aq.err # NoErr
             /\ set = {"*"} => aq.err = NoErr
             /\ (aq.user \notin DOMAIN permissions /\ "default" \notin DOMAIN permissions)
                   => aq.err # NoErr

\* a grant that rests on action:* alone
C6_Witness ==
    /\ aq.fn = "ValidatePermissions"
    /\ aq.err = NoErr
    /\ ResolvedSet(permissions, aq.user) = {aq.action \o ":*"}

\* p matches the permission string perm in HasPermission's sense
Matches(p, perm) ==
    \/ p = perm
    \/ p = "*"
    \/ \E a \in {"fly", "read", "restart"} :
          /\ p = a \o ":*"
          /\ \E r \in {"read", "app", "apps", "restart"} : perm = a \o ":" \o r

\* the decision the list alone gives for the query in aq
DecidedBy(list) ==
    IF aq.fn = "HasPermission"
    THEN \E p \in list : Matches(p, aq.perm)
    ELSE Contains(list, aq.action, aq.resource)

\* C7: the decision uses the user's own entry whenever the table has one,
\* even an empty one, and "default" only otherwise; the two are not unioned.
C7_OwnEntryOverridesDefault ==
    aq.fn \in {"ValidatePermissions", "HasPermission"}
       => /\ aq.user \in DOMAIN permissions
                => (aq.granted <=> DecidedBy(permissions[aq.user]))
          /\ (aq.user \notin DOMAIN permissions /\ "default" \in DOMAIN permissions)
                => (aq.granted <=> DecidedBy(permissions["default"]))

\* a configured user with an empty entry is denied what "default" grants
C7_Witness ==
    /\ aq.fn = "ValidatePermissions"
    /\ aq.user = "alice"
    /\ "alice" \in DOMAIN permissions /\ permissions["alice"] = {}
    /\ "default" \in DOMAIN permissions
    /\ Contains(permissions["default"], aq.action, aq.resource)
    /\ ~aq.granted

\* C8: whatever the body and the provider's answers, the request ends with
\* exactly one Response Envelope written (the encoder not failing).
C8_ExactlyOneEnvelope ==
    (pc = "done" /\ ret.err = NoErr)
       => /\ ~w.aborted
          /\ Len(Envelopes) = 1

\* C9: the HTTP status is 200 for every outcome, and 500 exactly when
\* encoding the Response Envelope failed in the dispatcher.
C9_StatusCodes ==
    (pc = "done" /\ ~w.aborted)
       => w.status = (IF ret.err # NoErr THEN StatusInternalServerError ELSE StatusOK)

\* C10: a body that fails to decode yields an envelope with error code
\* -32700 and no id; no method handler runs and no tool is executed.
C10_ParseError ==
    Malformed(body)
       => /\ pc \in {"decode", "return", "done"}
          /\ events = <<>>
          /\ toolName = ""
          /\ \A i \in 1..Len(Envelopes) :
                /\ Envelopes[i].hasError
                /\ Envelopes[i].error.Code = -32700
                /\ Envelopes[i].id = NoId
          /\ (pc \in {"return", "done"} /\ ret.err = NoErr) => Len(Envelopes) = 1

\* text that is not JSON, meant as a tools/call, was answered
C10_Witness ==
    /\ pc = "done"
    /\ body.top = "garbage"
    /\ body.method = JStr("tools/call")
    /\ Len(Envelopes) = 1
    /\ Envelopes[1].error.Code = -32700

\* a tools/call that names a tool the registry has no key for
UnknownToolCall ==
    /\ req.Method = "tools/call"
    /\ req.Params.kind = "object"
    /\ IsString(req.Params.name)
    /\ req.Params.name[2] \notin RegisteredTools

\* C11: a tools/call whose name is not a key of the registry yields an error
\* Response Envelope whose data mentions the name; it yields no result and
\* no Execute is invoked.
C11_UnknownToolError ==
    UnknownToolCall
       => /\ toolName = ""
          /\ pc \in {"route", "respond", "return", "done"}
          /\ \A i \in 1..Len(events) : events[i].kind \notin {"execute", "adapter"}
          /\ \A i \in 1..Len(Envelopes) :
                /\ Envelopes[i].hasError
                /\ ~Envelopes[i].hasResult
                /\ Envelopes[i].error.hasData
                /\ Envelopes[i].error.error = "tool not found: " \o req.Params.name[2]
          /\ (pc \in {"return", "done"} /\ ret.err = NoErr) => Len(Envelopes) = 1

\* an unknown tool was answered
C11_Witness ==
    /\ UnknownToolCall
    /\ req.Params.name = JStr("no_such_tool")
    /\ pc = "done"
    /\ Len(Envelopes) = 1
    /\ Envelopes[1].hasError

\* the handler-level failures the claim lists, read off the request
ListedFailure ==
    \/ req.Method \notin KnownMethods
    \/ req.Method = "resources/read"
    \/ /\ req.Method = "tools/call"
       /\ \/ req.Params.kind # "object"
          \/ ~IsString(req.Params.name)
          \/ req.Params.name[2] \notin RegisteredTools

\* every error code written is -32700 or -32601, and each listed failure
\* reaches the end of HandleRequest as an error
ErrorCodesEmitted ==
    /\ \A i \in 1..Len(Envelopes) :
          Envelopes[i].hasError => Envelopes[i].error.Code \in {-32700, -32601}
    /\ (pc = "respond" /\ ListedFailure) => ret.err # NoErr

\* HandleRequest answers a handler failure: what is written is one envelope
\* with code -32601 and data holding the request's method and the message
FailureAnswered ==
    (pc = "respond" /\ ret.err # NoErr /\ pc' = "return")
       => /\ ret'.err = NoErr <=> Len(w'.out) = Len(w.out) + 1
          /\ ret'.err # NoErr <=> w'.out = w.out
          /\ Len(w'.out) = Len(w.out) + 1
                => LET e == w'.out[Len(w'.out)]
                   IN /\ e.kind = "envelope"
                      /\ e.hasError /\ ~e.hasResult
                      /\ e.error.Code = -32601
                      /\ e.error.hasData
                      /\ e.error.method = req.Method
                      /\ e.error.error = ret.err

\* C12: every handler-level failure is reported with the error code -32601
\* and a data payload containing the request's method and the failure's
\* message; no error code other than -32700 and -32601 is ever emitted.
C12_HandlerFailureCode == []ErrorCodesEmitted /\ [][FailureAnswered]_vars

\* a tools/call without a tool name was answered with -32601
C12_Witness ==
    /\ pc = "done"
    /\ req.Method = "tools/call"
    /\ Len(Envelopes) = 1
    /\ Envelopes[1].error.Code = -32601
    /\ Envelopes[1].error.method = "tools/call"
    /\ Envelopes[1].error.error = "tool name is required"

\* the results of tools/list held by the handler or written to the client
ToolsListResults ==
    {r \in {ret.Result} \cup {Envelopes[i].result : i \in 1..Len(Envelopes)} :
        r.kind = "tools"}

\* C13: the names tools/list returns are exactly the names registered at
\* handler construction, each once; the registry never changes, so every
\* tools/list returns the same set; each name returned is a key of the
\* registry that holds the tool reporting that name.
C13_ToolsListIsRegistry ==
    /\ pc # "exited" => tools = registerTools
    /\ \A r \in ToolsListResults :
          /\ {r.names[i] : i \in 1..Len(r.names)} = RegisteredTools
          /\ Len(r.names) = Cardinality(RegisteredTools)
          /\ \A i \in 1..Len(r.names) :
                r.names[i] \in DOMAIN tools /\ tools[r.names[i]] = r.names[i]

\* tools/list was answered, fly_restart first
C13_Witness ==
    /\ pc = "done"
    /\ req.Method = "tools/list"
    /\ Len(Envelopes) = 1
    /\ Envelopes[1].result.kind = "tools"
    /\ Envelopes[1].result.names[1] = "fly_restart"

\* C14: every tool the README lists as available is in the registry after
\* NewHandler: tools/list names it and a tools/call on it is not answered
\* with tool-not-found.
C14_ReadmeToolsRegistered ==
    /\ \A r \in ToolsListResults :
          ReadmeTools \subseteq {r.names[i] : i \in 1..Len(r.names)}
    /\ (/\ pc = "respond"
        /\ req.Method = "tools/call"
        /\ req.Params.kind = "object"
        /\ IsString(req.Params.name)
        /\ req.Params.name[2] \in ReadmeTools)
          => ret.err = NoErr

\* C15: a server started with a non-empty API token that the provider
\* rejects still comes up (and then answers tools/call ping with a success
\* result).
C15_DummyTokenServes ==
    (flyConfig.APIToken # "" /\ GetCurrentUser(flyConfig.APIToken) # NoErr)
       => /\ pc # "exited"
          /\ "ping" \in DOMAIN tools

\* RestartApp was called and ListMachines returned at least one machine
RestartLooped ==
    /\ local.restart.called
    /\ local.restart.listed
    /\ local.restart.machines >= 1

\* the machines whose restart succeeded at the provider
Restarted == {i \in 1..Len(local.restart.outcomes) : local.restart.outcomes[i] = "ok"}

\* C16: when machine listing succeeds with n >= 1 machines, RestartApp
\* returns an error iff none of the per-machine restarts succeeded; it
\* returns nil whenever at least one machine restarted.
C16_RestartErrorIffNoneSucceeded ==
    RestartLooped
       => /\ Len(local.restart.outcomes) = local.restart.machines
          /\ (local.restart.err # NoErr) <=> (Restarted = {})
          /\ Restarted # {} => local.restart.err = NoErr

\* one machine restarted, the other did not, and RestartApp returned nil
C16_Witness ==
    /\ RestartLooped
    /\ local.restart.outcomes = <<"ok", "stop_fail">>
    /\ local.restart.err = NoErr

\* RestartApp restarted k of n machines with 1 <= k < n
PartialRestart ==
    /\ RestartLooped
    /\ Cardinality(Restarted) >= 1
    /\ Cardinality(Restarted) < local.restart.machines

\* C17: after a partial restart fly_restart returns a non-error ToolResult
\* whose content reports the number of machines restarted (k) and the
\* number that failed (n - k).
C17_PartialOutcomeReported ==
    (PartialRestart /\ pc = "toolreturn")
       => LET sum == RestartSummary(local.appName, local.status, local.reason, local.userID)
          IN /\ ~ret.Result.isError
             /\ ret.Result = RestartSuccess(local.appName, local.status, local.reason,
                                            local.userID)
             /\ sum.MachinesRestarted = Cardinality(Restarted)
             /\ "MachinesFailed" \in DOMAIN sum
             /\ sum.MachinesFailed = local.restart.machines - Cardinality(Restarted)

\* the calls of RestartMachine made so far, in order
RestartMachineCalls ==
    SelectSeq(events, LAMBDA e : e.kind = "adapter" /\ e.name = "RestartMachine")

\* C18: RestartApp invokes RestartMachine exactly once for every machine
\* ListMachines returned, in list order, whether or not earlier machines
\* failed; the success count plus the recorded failures equals the number
\* of machines.
C18_EveryMachineOnce ==
    RestartLooped
       => /\ Len(RestartMachineCalls) = local.restart.machines
          /\ \A i \in 1..Len(RestartMachineCalls) :
                RestartMachineCalls[i].resource = MachineIdAt(i)
          /\ local.restart.successCount + local.restart.errorCount
                = local.restart.machines

\* the first machine failed to stop and the second was restarted all the same
C18_Witness ==
    /\ RestartLooped
    /\ local.restart.outcomes = <<"stop_fail", "ok">>
    /\ Len(RestartMachineCalls) = 2
    /\ RestartMachineCalls[2].ok

\* the sum of the counts of a MachineStates map
RECURSIVE SumCounts(_, _)
SumCounts(f, S) ==
    IF S = {} THEN 0
    ELSE LET k == CHOOSE x \in S : TRUE IN f[k] + SumCounts(f, S \ {k})

\* position i of events is the return of a GetAppStatus call
IsGetAppStatus(i) == events[i].kind = "adapter" /\ events[i].name = "GetAppStatus"

\* C19: when the app lookup succeeds and the machine listing fails,
\* GetAppStatus returns a status with MachineCount 0, empty MachineStates
\* and a nil error; it returns an error only when the app lookup fails, and
\* otherwise MachineCount is the sum of the MachineStates counts.
C19_StatusDegrades ==
    \A g \in 1..Len(events) :
       IsGetAppStatus(g)
          => /\ g > 1
             /\ events[g].ok <=> ~local.status.nil
             /\ ~events[g].ok
                   <=> (events[g - 1].name = "GetAppCompact" /\ ~events[g - 1].ok)
             /\ (events[g - 1].name = "ListMachines" /\ ~events[g - 1].ok)
                   => /\ events[g].ok
                      /\ local.status.MachineCount = 0
                      /\ DOMAIN local.status.MachineStates = {}
             /\ ~local.status.nil
                   => local.status.MachineCount
                         = SumCounts(local.status.MachineStates,
                                     DOMAIN local.status.MachineStates)

\* fly_status got a status although the machines could not be listed
C19_Witness ==
    /\ toolName = "fly_status"
    /\ pc = "toolreturn"
    /\ \E g \in 2..Len(events) :
          /\ IsGetAppStatus(g) /\ events[g].ok
          /\ events[g - 1].name = "ListMachines" /\ ~events[g - 1].ok
    /\ ~local.status.nil
    /\ local.status.MachineCount = 0

\* C20: if the request context is cancelled while RestartApp is partway
\* through its machines, no stop or start is called for the machines not
\* yet processed and RestartApp returns an error.
C20_CancelAbortsRestart ==
    RestartLooped
       => \A c \in 2..local.restart.machines :
             (/\ local.restart.outcomes[c] = "ctx_cancelled"
              /\ local.restart.outcomes[c - 1] # "ctx_cancelled")
                => /\ local.restart.err # NoErr
                   /\ \A i \in 1..Len(events) :
                         (IsAdapterCall(i) /\ events[i].name \in {"StopMachine", "StartMachine"})
                            => \A j \in c..local.restart.machines :
                                  events[i].resource # MachineIdAt(j)


\* the ToolResults held by the handler or written to the client
ToolResultsSeen ==
    {r \in {ret.Result} \cup {Envelopes[i].result : i \in 1..Len(Envelopes)} :
        r.kind = "tool"}

\* C22: every ToolResult with isError true returned by a registered tool,
\* on any path, has at least one content block with a non-empty text.
C22_ErrorResultsExplain ==
    \A r \in ToolResultsSeen :
       r.isError => \E i \in 1..Len(r.content) : r.content[i] # ""

\* fly_list_apps returned an error result after the provider failed
C22_Witness ==
    /\ toolName = "fly_list_apps"
    /\ pc = "toolreturn"
    /\ ret.Result.isError
    /\ \E i \in 1..Len(events) :
          IsAdapterCall(i) /\ events[i].name = "GetApps" /\ ~events[i].ok

\* the texts of a denial for the anonymous caller
DenialTexts ==
    {"Permission denied: insufficient permissions: user anonymous cannot "
         \o a \o " on " \o r : a \in Actions, r \in Resources}
    \cup {"Permission denied: no permissions configured for user anonymous"}

\* C23: when authorization fails for a tools/call on a Fly.io tool, the
\* response is a success envelope (result present, no error object) whose
\* ToolResult has isError true and a message describing the denial.
C23_DenialIsToolError ==
    local.authz = "denied"
       => /\ toolName \in FlyTools
          /\ pc \in {"toolreturn", "respond", "return", "done"}
          /\ pc \in {"toolreturn", "respond"}
                => /\ ret.err = NoErr
                   /\ ret.Result.isError
                   /\ Len(ret.Result.content) = 1
                   /\ ret.Result.content[1] \in DenialTexts
          /\ \A i \in 1..Len(Envelopes) :
                /\ Envelopes[i].hasResult /\ ~Envelopes[i].hasError
                /\ Envelopes[i].result.isError
                /\ Envelopes[i].result.content[1] \in DenialTexts
          /\ (pc \in {"return", "done"} /\ ret.err = NoErr) => Len(Envelopes) = 1

\* a denied fly_app_info was answered
C23_Witness ==
    /\ local.authz = "denied"
    /\ toolName = "fly_app_info"
    /\ pc = "done"
    /\ Len(Envelopes) = 1
    /\ Envelopes[1].hasResult

\* the log events of one kind, in order
LogEvents(kind) == SelectSeq(events, LAMBDA e : e.kind = kind)

\* C24: every request handled by HandleRequest, a body that fails to parse
\* included, emits one request-received event followed by exactly one
\* response-sent event whose success flag matches the envelope written.
C24_RequestResponseLogged ==
    (pc = "done" /\ ~w.aborted)
       => /\ Len(LogEvents("mcp_request")) = 1
          /\ Len(LogEvents("mcp_response")) = 1
          /\ \A i, j \in 1..Len(events) :
                (events[i].kind = "mcp_request" /\ events[j].kind = "mcp_response") => i < j
          /\ Len(Envelopes) = 1
                => LogEvents("mcp_response")[1].ok = Envelopes[1].hasResult

\* C25: each call of ValidateRequest emits exactly one security event; its
\* allowed flag is true iff ValidateRequest returns nil, and it carries the
\* resolved user id, the resource and the requested action.
C25_OneSecurityEvent ==
    aq.fn = "ValidateRequest"
       => /\ Len(aq.events) = 1
          /\ aq.events[1].kind = "security"
          /\ aq.events[1].ok <=> (aq.err = NoErr)
          /\ aq.events[1].user
                = (IF aq.ctxUser[1] = "str" /\ aq.ctxUser[2] # ""
                   THEN aq.ctxUser[2] ELSE "anonymous")
          /\ aq.events[1].resource = aq.resource
          /\ aq.events[1].action = aq.action

\* an authorized request of an identified user left its event
C25_Witness ==
    /\ aq.fn = "ValidateRequest"
    /\ aq.ctxUser = JStr("alice")
    /\ aq.err = NoErr
    /\ Len(aq.events) = 1
    /\ aq.events[1].name = "request_authorized"

\* C26: with the permission table shipped in config.local.yaml or
\* config.production.yaml, a tools/call by the anonymous caller to a Fly.io
\* tool passes the authorization gate and reaches the adapter.
C26_ShippedConfigAdmitsAnonymous ==
    (/\ permissions \in {ConfigLocalPermissions, ConfigProductionPermissions}
     /\ toolName \in FlyTools
     /\ pc = "toolreturn")
       => /\ local.authz = "ok"
          /\ \E j \in 1..Len(events) : events[j].kind = "security" /\ events[j].ok

\* the adapter methods the tools call
AdapterMethods == {"GetApps", "GetApp", "GetAppStatus", "RestartApp"}

\* C27: within one request no adapter method is called unless
\* ValidateRequest returned success earlier in that request; a denied
\* request makes no adapter call and emits no audit-log event.
C27_AdapterOnlyAfterValidateRequest ==
    /\ \A i \in 1..Len(events) :
          (IsAdapterCall(i) /\ events[i].name \in AdapterMethods)
             => /\ local.authz = "ok"
                /\ \E j \in 1..(i - 1) :
                      /\ events[j].kind = "security" /\ events[j].ok
                      /\ events[j].name = "request_authorized"
    /\ AtAdapter => local.authz = "ok"
    /\ local.authz = "denied"
          => /\ \A i \in 1..Len(events) : events[i].kind \notin {"adapter", "audit"}
             /\ Len(LogEvents("security")) = 1
             /\ ~LogEvents("security")[1].ok

\* fly_status with a valid app_name was denied and returned
C27_Witness ==
    /\ toolName = "fly_status"
    /\ pc = "toolreturn"
    /\ local.authz = "denied"
    /\ ~BadAppName(args)
    /\ Len(LogEvents("security")) = 1

\* the pre-restart status check of this request failed
StatusCheckFailed ==
    \E g \in 1..Len(events) : IsGetAppStatus(g) /\ ~events[g].ok

\* position i of events belongs to the restart itself
IsRestartCall(i) ==
    /\ IsAdapterCall(i)
    /\ events[i].name \in {"RestartApp", "RestartMachine", "StopMachine", "StartMachine"}

\* C28: in fly_restart, RestartApp is invoked only after authorization
\* succeeded, app_name was a non-empty string, confirm was true and the
\* pre-restart GetAppStatus succeeded, in this order; if the status check
\* fails the tool returns an isError result and RestartApp is never called.
C28_RestartAppOrdering ==
    toolName = "fly_restart"
       => /\ (pc = "RestartApp" \/ local.restart.called)
                => /\ local.authz = "ok"
                   /\ ~BadAppName(args)
                   /\ args.confirm = JTrue
                   /\ ~local.status.nil
                   /\ \E a, g \in 1..Len(events) :
                         /\ a < g
                         /\ events[a].kind = "security" /\ events[a].ok
                         /\ IsGetAppStatus(g) /\ events[g].ok
                         /\ \A i \in 1..Len(events) : IsRestartCall(i) => g < i
          /\ StatusCheckFailed
                => /\ pc # "RestartApp"
                   /\ ~local.restart.called
                   /\ \A i \in 1..Len(events) : ~IsRestartCall(i)
                   /\ pc = "toolreturn" => (ret.err = NoErr /\ ret.Result.isError)

\* the status check failed and fly_restart returned its error result
C28_Witness ==
    /\ toolName = "fly_restart"
    /\ pc = "toolreturn"
    /\ StatusCheckFailed
    /\ ret.Result.isError
    /\ args.confirm = JTrue

\* position i of events is the named call on the machine of position m
IsMachineCall(i, name, m) ==
    /\ i <= Len(events)
    /\ IsAdapterCall(i)
    /\ events[i].name = name
    /\ events[i].resource = events[m].resource

\* C29: RestartMachine issues the stop call before the start call, and the
\* start call only if the stop succeeded; when stop fails it returns an
\* error without calling start, and it returns nil only when both succeeded.
C29_StopBeforeStart ==
    \A i \in 1..Len(events) :
       /\ (IsAdapterCall(i) /\ events[i].name = "StartMachine")
             => i > 1 /\ IsMachineCall(i - 1, "StopMachine", i) /\ events[i - 1].ok
       /\ (IsAdapterCall(i) /\ events[i].name = "RestartMachine")
             => /\ IsMachineCall(i + 1, "StopMachine", i)
                /\ ~events[i + 1].ok
                      => ~events[i].ok /\ ~IsMachineCall(i + 2, "StartMachine", i)
                /\ events[i].ok
                      <=> /\ events[i + 1].ok
                          /\ IsMachineCall(i + 2, "StartMachine", i)
                          /\ events[i + 2].ok

\* a machine that failed to stop, then one that stopped and failed to start
C29_Witness ==
    /\ local.restart.called
    /\ local.restart.outcomes = <<"stop_fail", "start_fail">>
    /\ \E i \in 1..Len(events) :
          IsAdapterCall(i) /\ events[i].name = "StartMachine" /\ ~events[i].ok

\* the users a table may name besides "anonymous" and "default"
NamedUsers == {"alice", "bob"}

\* the tables that differ from t only in entries for named users
OtherUserVariants(t) ==
    {[u \in (DOMAIN t \ NamedUsers) \cup D |-> IF u \in D THEN l ELSE t[u]] :
        D \in SUBSET NamedUsers, l \in {{}, {"*"}, {"read:apps", "restart:app"}}}

\* C30: every request entering through HandleRequest is authorized as
\* "anonymous"; the decision depends only on the tool and on the table's
\* "anonymous" and "default" entries: a table that differs only in entries
\* for other users gives the same decision.
C30_AnonymousOnly ==
    \A i \in 1..Len(events) :
       events[i].kind = "security"
          => /\ events[i].user = "anonymous"
             /\ \A t \in OtherUserVariants(permissions) :
                   (ValidateRequest(t, CtxUser, events[i].action, events[i].resource)[1] = NoErr)
                      <=> events[i].ok

\* the caller was denied although a named user of the table holds "*"
C30_Witness ==
    /\ "alice" \in DOMAIN permissions
    /\ permissions["alice"] = {"*"}
    /\ pc = "toolreturn"
    /\ local.authz = "denied"
    /\ \E i \in 1..Len(events) : events[i].kind = "security" /\ ~events[i].ok


\* C21: when the process receives a shutdown signal while tools/call
\* requests are executing, the context passed to each in-flight Execute
\* becomes cancelled as a consequence of that signal: once runServer has
\* handled the signal and returned, no Execute is left running on a context
\* that was never cancelled, and a request the signal found executing was
\* cancelled by the signal.
C21_SignalCancelsInflight ==
    proc.main = "returned"
       => \A i \in 1..MaxInflight :
             inflight[i].state = "executing"
                => inflight[i].ctx = "cancelled" /\ inflight[i].cause = "signal"


=============================================================================
